---- MODULE Spec2Model ----
(***************************************************************************)
(* Model of backend/main.py: a FastAPI application with one route,         *)
(* POST /api/remove-background.  The module-level statement                *)
(* `remover = Remover(mode='fast', resize='dynamic')` runs once at import; *)
(* each request runs the coroutine remove_background_endpoint on the       *)
(* single asyncio event loop of the process:                               *)
(*                                                                         *)
(*   19  image_bytes = await file.read()                                   *)
(*   20  img = Image.open(io.BytesIO(image_bytes)).convert('RGB')          *)
(*   21  out_img = remover.process(img, type='rgba')                       *)
(*   22  buf = io.BytesIO()                                                *)
(*   23  out_img.save(buf, format='PNG')                                   *)
(*   24  return Response(content=buf.getvalue(), media_type='image/png')   *)
(*                                                                         *)
(* The only await is on line 19; from its return to the return on line 24  *)
(* the coroutine keeps the event loop.  An exception leaving the coroutine *)
(* is turned by the framework into a 500 response.                         *)
(***************************************************************************)
EXTENDS Integers, Sequences, FiniteSets, TLC

\* Number of requests the clients send during a run.
NReq == 2

Req == 1..NReq

(***************************************************************************)
(* Image codec (PIL).  A file is a sequence of bytes: a magic byte, the    *)
(* number of channels, width, height, then the samples row by row.         *)
(***************************************************************************)
PNGMagic == 137

JPEGMagic == 255

NoBitmap == [mode |-> 0, w |-> 0, h |-> 0, px |-> <<>>]

\* Number of samples of a bitmap of the given header.
NSamples(bm) == bm.mode * bm.w * bm.h

\* Image.open: succeeds when the header identifies an image.
Identifiable(b) ==
    /\ Len(b) >= 4
    /\ b[1] \in {PNGMagic, JPEGMagic}
    /\ b[2] \in {1, 3, 4}
    /\ b[3] >= 1
    /\ b[4] >= 1

\* Image.open is lazy: it reads the header and keeps the rest of the file.
ImageOpen(b) ==
    [mode |-> b[2], w |-> b[3], h |-> b[4], px |-> SubSeq(b, 5, Len(b))]

\* Image.load (called by convert): fails on a truncated file.
Loadable(lazy) == Len(lazy.px) >= NSamples(lazy)

ImageLoad(lazy) == [lazy EXCEPT !.px = SubSeq(lazy.px, 1, NSamples(lazy))]

\* Image.convert('RGB') of a loaded bitmap: grey is replicated, alpha dropped.
to_RGB(bm) ==
    [mode |-> 3, w |-> bm.w, h |-> bm.h,
     px |-> [k \in 1..(3 * bm.w * bm.h) |->
               LET p == (k - 1) \div 3
                   c == (k - 1) % 3
               IN  CASE bm.mode = 1 -> bm.px[p + 1]
                     [] bm.mode = 3 -> bm.px[k]
                     [] OTHER       -> bm.px[4 * p + c + 1]]]

\* decode(bytes) of the spec: open, then load.
Decodable(b) == Identifiable(b) /\ Loadable(ImageOpen(b))

Decode(b) == ImageLoad(ImageOpen(b))

\* Image.save(buf, format='PNG').
EncodePNG(bm) == <<PNGMagic, bm.mode, bm.w, bm.h>> \o bm.px

(***************************************************************************)
(* The background-removal model (transparent_background.Remover).          *)
(***************************************************************************)
NoRemover == [id |-> 0, mode |-> "", resize |-> ""]

\* Remover(mode=..., resize=...): the n-th instance built by the process.
Remover(n, mode, resize) == [id |-> n, mode |-> mode, resize |-> resize]

\* The instance line 15 builds.
LoadedRemover == Remover(1, "fast", "dynamic")

\* The handle's decision threshold: a function of the loaded weights.
Threshold(handle) == IF handle.mode = "fast" THEN 384 ELSE 96

\* remover.process(img, type='rgba'): the RGB samples plus an alpha sample,
\* opaque for foreground pixels; the output has the input's dimensions.
infer(handle, bm) ==
    [mode |-> 4, w |-> bm.w, h |-> bm.h,
     px |-> [k \in 1..(4 * bm.w * bm.h) |->
               LET p == (k - 1) \div 4
                   c == (k - 1) % 4
                   sum == bm.px[3 * p + 1] + bm.px[3 * p + 2] + bm.px[3 * p + 3]
               IN  IF c < 3 THEN bm.px[3 * p + c + 1]
                   ELSE IF sum < Threshold(handle) THEN 255 ELSE 0]]

(***************************************************************************)
(* Uploaded files.                                                         *)
(***************************************************************************)
EmptyFile == <<>>

RandomBytes == <<3, 1, 4, 1, 5>>

\* A 1x1 RGB PNG cut after its first sample.
TruncatedPNG == <<137, 3, 1, 1, 9>>

\* A 1x1 greyscale JPEG.
GrayJPEG == <<255, 1, 1, 1, 200>>

\* A 2x1 RGB PNG: a white pixel and a dark one.
RGBPNG == <<137, 3, 2, 1, 250, 250, 250, 10, 20, 30>>

\* A 1x2 RGBA PNG.
RGBAPNG == <<137, 4, 1, 2, 10, 20, 30, 255, 90, 100, 110, 0>>

Uploads == {EmptyFile, RandomBytes, TruncatedPNG, GrayJPEG, RGBPNG, RGBAPNG}

(***************************************************************************)
(* HTTP responses.                                                         *)
(***************************************************************************)
NoResponse == [status |-> 0, media_type |-> "", content |-> <<>>]

\* Response(content=..., media_type='image/png')
PNGResponse(content) ==
    [status |-> 200, media_type |-> "image/png", content |-> content]

\* The framework's answer to an unhandled exception: 500, plain text
\* "Internal Server Error" (abbreviated here to its initials).
ServerError ==
    [status |-> 500, media_type |-> "text/plain", content |-> <<73, 83, 69>>]

Stages == <<"decode", "rgb", "infer", "encode">>

VARIABLES
    proc,          \* "importing" | "serving" | "crashed"
    remover,       \* the module-level name `remover`
    created,       \* how many Remover instances the process has built
    loop,          \* the request whose coroutine holds the event loop, 0 if none
    pc,            \* each request's position
    upload,        \* the bytes of the request's file field
    image_bytes,   \* local of the handler
    img,           \* local of the handler
    out_img,       \* local of the handler
    buf,           \* local of the handler (buf.getvalue())
    response,      \* what the caller receives
    responses,     \* how many responses were written for the request
    trace,         \* the pipeline calls made for the request, in order
    failedAt,      \* the call that raised for the request, "" if none
    usedRemover,   \* id of the instance the request's inference was called on
    afterFailure   \* the request arrived after another request had failed

vars == <<proc, remover, created, loop, pc, upload, image_bytes, img, out_img,
          buf, response, responses, trace, failedAt, usedRemover, afterFailure>>

Init ==
    /\ proc = "importing"
    /\ remover = NoRemover
    /\ created = 0
    /\ loop = 0
    /\ pc = [r \in Req |-> "new"]
    /\ upload = [r \in Req |-> <<>>]
    /\ image_bytes = [r \in Req |-> <<>>]
    /\ img = [r \in Req |-> NoBitmap]
    /\ out_img = [r \in Req |-> NoBitmap]
    /\ buf = [r \in Req |-> <<>>]
    /\ response = [r \in Req |-> NoResponse]
    /\ responses = [r \in Req |-> 0]
    /\ trace = [r \in Req |-> <<>>]
    /\ failedAt = [r \in Req |-> ""]
    /\ usedRemover = [r \in Req |-> 0]
    /\ afterFailure = [r \in Req |-> FALSE]

\* Line 15, at import: the model is loaded, then the server starts serving.
Startup ==
    /\ proc = "importing"
    /\ remover' = Remover(created + 1, "fast", "dynamic")
    /\ created' = created + 1
    /\ proc' = "serving"
    /\ UNCHANGED <<loop, pc, upload, image_bytes, img, out_img, buf, response,
                   responses, trace, failedAt, usedRemover, afterFailure>>

\* A client posts a file; the route's coroutine waits on line 19.
Arrive(r, b) ==
    /\ proc = "serving"
    /\ pc[r] = "new"
    /\ pc' = [pc EXCEPT ![r] = "await_read"]
    /\ upload' = [upload EXCEPT ![r] = b]
    /\ afterFailure' = [afterFailure EXCEPT ![r] = \E q \in Req : failedAt[q] # ""]
    /\ UNCHANGED <<proc, remover, created, loop, image_bytes, img, out_img, buf,
                   response, responses, trace, failedAt, usedRemover>>

\* Variant of Raise: the exception is not caught and ends the process.
RaiseKillsProcess(r, stage) ==
    /\ failedAt' = [failedAt EXCEPT ![r] = stage]
    /\ response' = [response EXCEPT ![r] = ServerError]
    /\ responses' = [responses EXCEPT ![r] = @ + 1]
    /\ pc' = [pc EXCEPT ![r] = "done"]
    /\ loop' = 0
    /\ proc' = "crashed"

\* An exception leaves the coroutine: the framework answers 500, the event
\* loop is released and the process keeps serving.
Raise(r, stage) ==
    /\ failedAt' = [failedAt EXCEPT ![r] = stage]
    /\ response' = [response EXCEPT ![r] = ServerError]
    /\ responses' = [responses EXCEPT ![r] = @ + 1]
    /\ pc' = [pc EXCEPT ![r] = "done"]
    /\ loop' = 0
    /\ proc' = proc

\* Variant of ReadReturn: the handler is a plain `def`, run in the thread
\* pool, so it resumes whether or not another request is being processed.
ReadReturnInThread(r) ==
    /\ proc = "serving"
    /\ pc[r] = "await_read"
    /\ image_bytes' = [image_bytes EXCEPT ![r] = upload[r]]
    /\ loop' = r
    /\ pc' = [pc EXCEPT ![r] = "open"]
    /\ UNCHANGED <<proc, remover, created, upload, img, out_img, buf, response,
                   responses, trace, failedAt, usedRemover, afterFailure>>

\* Line 19: the await returns the uploaded bytes; the coroutine resumes.
ReadReturn(r) ==
    /\ proc = "serving"
    /\ loop = 0
    /\ pc[r] = "await_read"
    /\ image_bytes' = [image_bytes EXCEPT ![r] = upload[r]]
    /\ loop' = r
    /\ pc' = [pc EXCEPT ![r] = "open"]
    /\ UNCHANGED <<proc, remover, created, upload, img, out_img, buf, response,
                   responses, trace, failedAt, usedRemover, afterFailure>>

\* Line 19: the await raises (the client went away during the upload).
ReadRaise(r) ==
    /\ proc = "serving"
    /\ loop = 0
    /\ pc[r] = "await_read"
    /\ Raise(r, "read")
    /\ UNCHANGED <<remover, created, upload, image_bytes, img, out_img, buf,
                   trace, usedRemover, afterFailure>>

\* Line 20, Image.open(io.BytesIO(image_bytes)): reads the header.
Open(r) ==
    /\ proc = "serving"
    /\ loop = r
    /\ pc[r] = "open"
    /\ trace' = [trace EXCEPT ![r] = Append(@, "decode")]
    /\ IF Identifiable(image_bytes[r])
       THEN /\ img' = [img EXCEPT ![r] = ImageOpen(image_bytes[r])]
            /\ pc' = [pc EXCEPT ![r] = "convert"]
            /\ UNCHANGED <<proc, loop, response, responses, failedAt>>
       ELSE /\ Raise(r, "decode")
            /\ UNCHANGED img
    /\ UNCHANGED <<remover, created, upload, image_bytes, out_img, buf,
                   usedRemover, afterFailure>>

\* Variant of Convert: the image is also shrunk to one pixel before inference.
ConvertThumbnail(r) ==
    /\ proc = "serving"
    /\ loop = r
    /\ pc[r] = "convert"
    /\ trace' = [trace EXCEPT ![r] = Append(@, "rgb")]
    /\ IF Loadable(img[r])
       THEN /\ img' = [img EXCEPT ![r] =
                         to_RGB([mode |-> img[r].mode, w |-> 1, h |-> 1,
                                 px |-> SubSeq(img[r].px, 1, img[r].mode)])]
            /\ pc' = [pc EXCEPT ![r] = "infer"]
            /\ UNCHANGED <<proc, loop, response, responses, failedAt>>
       ELSE /\ Raise(r, "rgb")
            /\ UNCHANGED img
    /\ UNCHANGED <<remover, created, upload, image_bytes, out_img, buf,
                   usedRemover, afterFailure>>

\* Line 20, .convert('RGB'): loads the pixel data, then converts it.
Convert(r) ==
    /\ proc = "serving"
    /\ loop = r
    /\ pc[r] = "convert"
    /\ trace' = [trace EXCEPT ![r] = Append(@, "rgb")]
    /\ IF Loadable(img[r])
       THEN /\ img' = [img EXCEPT ![r] = to_RGB(ImageLoad(img[r]))]
            /\ pc' = [pc EXCEPT ![r] = "infer"]
            /\ UNCHANGED <<proc, loop, response, responses, failedAt>>
       ELSE /\ Raise(r, "rgb")
            /\ UNCHANGED img
    /\ UNCHANGED <<remover, created, upload, image_bytes, out_img, buf,
                   usedRemover, afterFailure>>

\* Variant of InferCall: the handler builds a new Remover for each request.
InferCallReloads(r) ==
    /\ proc = "serving"
    /\ loop = r
    /\ pc[r] = "infer"
    /\ trace' = [trace EXCEPT ![r] = Append(@, "infer")]
    /\ remover' = Remover(created + 1, "fast", "dynamic")
    /\ created' = created + 1
    /\ usedRemover' = [usedRemover EXCEPT ![r] = created + 1]
    /\ pc' = [pc EXCEPT ![r] = "in_infer"]
    /\ UNCHANGED <<proc, loop, upload, image_bytes, img, out_img, buf,
                   response, responses, failedAt, afterFailure>>

\* Line 21: the coroutine calls remover.process on the module-level instance.
InferCall(r) ==
    /\ proc = "serving"
    /\ loop = r
    /\ pc[r] = "infer"
    /\ trace' = [trace EXCEPT ![r] = Append(@, "infer")]
    /\ usedRemover' = [usedRemover EXCEPT ![r] = remover.id]
    /\ pc' = [pc EXCEPT ![r] = "in_infer"]
    /\ UNCHANGED <<proc, remover, created, loop, upload, image_bytes, img,
                   out_img, buf, response, responses, failedAt, afterFailure>>

\* Variant of InferReturn: the call leaves the instance in another mode.
InferReturnAdapts(r) ==
    /\ proc = "serving"
    /\ loop = r
    /\ pc[r] = "in_infer"
    /\ out_img' = [out_img EXCEPT ![r] = infer(remover, img[r])]
    /\ remover' = [remover EXCEPT !.mode = "base"]
    /\ pc' = [pc EXCEPT ![r] = "encode"]
    /\ UNCHANGED <<proc, created, loop, upload, image_bytes, img, buf,
                   response, responses, trace, failedAt, usedRemover,
                   afterFailure>>

\* Line 21: remover.process returns the RGBA bitmap.
InferReturn(r) ==
    /\ proc = "serving"
    /\ loop = r
    /\ pc[r] = "in_infer"
    /\ out_img' = [out_img EXCEPT ![r] = infer(remover, img[r])]
    /\ pc' = [pc EXCEPT ![r] = "encode"]
    /\ UNCHANGED <<proc, remover, created, loop, upload, image_bytes, img, buf,
                   response, responses, trace, failedAt, usedRemover,
                   afterFailure>>

\* Variant of InferRaise: the handler catches the exception and puts the
\* request back to be processed again.
InferRaiseRetries(r) ==
    /\ proc = "serving"
    /\ loop = r
    /\ pc[r] = "in_infer"
    /\ pc' = [pc EXCEPT ![r] = "await_read"]
    /\ loop' = 0
    /\ trace' = [trace EXCEPT ![r] = <<>>]
    /\ UNCHANGED <<proc, remover, created, upload, image_bytes, img, out_img,
                   buf, response, responses, failedAt, usedRemover,
                   afterFailure>>

\* Line 21: remover.process raises.
InferRaise(r) ==
    /\ proc = "serving"
    /\ loop = r
    /\ pc[r] = "in_infer"
    /\ Raise(r, "infer")
    /\ UNCHANGED <<remover, created, upload, image_bytes, img, out_img, buf,
                   trace, usedRemover, afterFailure>>

\* Variant of InferHang: the call is wrapped in a timeout that cancels it.
InferHangTimesOut(r) ==
    /\ proc = "serving"
    /\ loop = r
    /\ \/ /\ pc[r] = "in_infer"
          /\ pc' = [pc EXCEPT ![r] = "hung"]
          /\ UNCHANGED <<proc, loop, response, responses, failedAt>>
       \/ /\ pc[r] = "hung"
          /\ Raise(r, "infer")
    /\ UNCHANGED <<remover, created, upload, image_bytes, img, out_img, buf,
                   trace, usedRemover, afterFailure>>

\* Line 21: remover.process never returns.  The handler sets no timeout and
\* has no cancellation path: nothing is enabled for the request afterwards,
\* and the coroutine keeps the event loop.
InferHang(r) ==
    /\ proc = "serving"
    /\ loop = r
    /\ pc[r] = "in_infer"
    /\ pc' = [pc EXCEPT ![r] = "hung"]
    /\ UNCHANGED <<proc, remover, created, loop, upload, image_bytes, img,
                   out_img, buf, response, responses, trace, failedAt,
                   usedRemover, afterFailure>>

\* Variant of EncodeOk: img, not out_img, is saved.
EncodeOkSavesInput(r) ==
    /\ proc = "serving"
    /\ loop = r
    /\ pc[r] = "encode"
    /\ trace' = [trace EXCEPT ![r] = Append(@, "encode")]
    /\ buf' = [buf EXCEPT ![r] = EncodePNG(img[r])]
    /\ pc' = [pc EXCEPT ![r] = "return"]
    /\ UNCHANGED <<proc, remover, created, loop, upload, image_bytes, img,
                   out_img, response, responses, failedAt, usedRemover,
                   afterFailure>>

\* Variant of EncodeOk: buf is one module-level buffer that all requests share.
EncodeOkSharedBuf(r) ==
    /\ proc = "serving"
    /\ loop = r
    /\ pc[r] = "encode"
    /\ trace' = [trace EXCEPT ![r] = Append(@, "encode")]
    /\ buf' = [q \in Req |-> EncodePNG(out_img[r])]
    /\ pc' = [pc EXCEPT ![r] = "return"]
    /\ UNCHANGED <<proc, remover, created, loop, upload, image_bytes, img,
                   out_img, response, responses, failedAt, usedRemover,
                   afterFailure>>

\* Lines 22-23: out_img.save(buf, format='PNG') succeeds.
EncodeOk(r) ==
    /\ proc = "serving"
    /\ loop = r
    /\ pc[r] = "encode"
    /\ trace' = [trace EXCEPT ![r] = Append(@, "encode")]
    /\ buf' = [buf EXCEPT ![r] = EncodePNG(out_img[r])]
    /\ pc' = [pc EXCEPT ![r] = "return"]
    /\ UNCHANGED <<proc, remover, created, loop, upload, image_bytes, img,
                   out_img, response, responses, failedAt, usedRemover,
                   afterFailure>>

\* Variant of EncodeRaise: the exception is swallowed and what buf holds is
\* returned as the image.
EncodeRaiseReturnsPartial(r) ==
    /\ proc = "serving"
    /\ loop = r
    /\ pc[r] = "encode"
    /\ trace' = [trace EXCEPT ![r] = Append(@, "encode")]
    /\ buf' = [buf EXCEPT ![r] = SubSeq(EncodePNG(out_img[r]), 1, 4)]
    /\ failedAt' = [failedAt EXCEPT ![r] = "encode"]
    /\ response' = [response EXCEPT ![r] = PNGResponse(buf'[r])]
    /\ responses' = [responses EXCEPT ![r] = @ + 1]
    /\ pc' = [pc EXCEPT ![r] = "done"]
    /\ loop' = 0
    /\ UNCHANGED <<proc, remover, created, upload, image_bytes, img, out_img,
                   usedRemover, afterFailure>>

\* Lines 22-23: out_img.save raises after writing part of the file to buf.
EncodeRaise(r) ==
    /\ proc = "serving"
    /\ loop = r
    /\ pc[r] = "encode"
    /\ trace' = [trace EXCEPT ![r] = Append(@, "encode")]
    /\ buf' = [buf EXCEPT ![r] = SubSeq(EncodePNG(out_img[r]), 1, 4)]
    /\ Raise(r, "encode")
    /\ UNCHANGED <<remover, created, upload, image_bytes, img, out_img,
                   usedRemover, afterFailure>>

\* Line 24: the coroutine returns the response and releases the event loop.
Return(r) ==
    /\ proc = "serving"
    /\ loop = r
    /\ pc[r] = "return"
    /\ response' = [response EXCEPT ![r] = PNGResponse(buf[r])]
    /\ responses' = [responses EXCEPT ![r] = @ + 1]
    /\ pc' = [pc EXCEPT ![r] = "done"]
    /\ loop' = 0
    /\ UNCHANGED <<proc, remover, created, upload, image_bytes, img, out_img,
                   buf, trace, failedAt, usedRemover, afterFailure>>

\* The steps of request r's coroutine.
Handler(r) ==
    \/ ReadReturn(r)
    \/ ReadRaise(r)
    \/ Open(r)
    \/ Convert(r)
    \/ InferCall(r)
    \/ InferReturn(r)
    \/ InferRaise(r)
    \/ InferHang(r)
    \/ EncodeOk(r)
    \/ EncodeRaise(r)
    \/ Return(r)

Next ==
    \/ Startup
    \/ \E r \in Req, b \in Uploads : Arrive(r, b)
    \/ \E r \in Req : Handler(r)

Spec == Init /\ [][Next]_vars

\* The event loop runs every coroutine that is ready; a call that returns or
\* raises does so eventually (InferHang is the call that does not).
FairSpec == Spec /\ \A r \in Req : WF_vars(Handler(r))

(***************************************************************************)
(* Vocabulary of the properties.                                           *)
(***************************************************************************)
\* The spec's request states, from a position of the coroutine.
StatusOf(p) ==
    CASE p = "new"        -> "none"
      [] p = "await_read" -> "received"
      [] p = "done"       -> "completed"
      [] OTHER            -> "processing"

Rank(st) ==
    CASE st = "none"       -> 0
      [] st = "received"   -> 1
      [] st = "processing" -> 2
      [] OTHER             -> 3

\* The request is between the return of line 19 and the end of the handler.
InSection(r) == StatusOf(pc[r]) = "processing"

\* encode_PNG(infer(to_RGB(decode(b)), RGBA)) as a 200 image/png response.
Expected(b) ==
    PNGResponse(EncodePNG(infer(LoadedRemover, to_RGB(Decode(b)))))

IsPrefix(s, t) == Len(s) <= Len(t) /\ s = SubSeq(t, 1, Len(s))

Succeeded(r) == pc[r] = "done" /\ response[r].status = 200

\* C1: a request whose upload decodes and whose read, inference and encoding
\* calls succeed is answered 200, image/png, with exactly
\* encode_PNG(infer(to_RGB(decode(upload)))), each stage called once, in order.
C1_PipelineResult ==
    \A r \in Req :
        (/\ pc[r] = "done"
         /\ Decodable(upload[r])
         /\ failedAt[r] \notin {"read", "infer", "encode"})
        => /\ response[r] = Expected(upload[r])
           /\ trace[r] = Stages
           /\ responses[r] = 1

C1_Witness ==
    \E r \in Req :
        /\ pc[r] = "done"
        /\ upload[r] = RGBAPNG
        /\ response[r] = Expected(RGBAPNG)

\* C2: a call that raises ends the request: the calls made are a prefix of
\* decode, rgb, infer, encode ending at the one that raised (none repeated,
\* none after it), the answer is the 500 error and carries no image, and a
\* request whose upload does not decode never gets a 200.
C2_FailureAborts ==
    \A r \in Req :
        /\ IsPrefix(trace[r], Stages)
        /\ failedAt[r] # ""
           => /\ pc[r] = "done"
              /\ response[r] = ServerError
              /\ ~Identifiable(response[r].content)
              /\ responses[r] = 1
              /\ IF failedAt[r] = "read"
                 THEN trace[r] = <<>>
                 ELSE trace[r] # <<>> /\ trace[r][Len(trace[r])] = failedAt[r]
        /\ (pc[r] = "done" /\ ~Decodable(upload[r]))
           => failedAt[r] \in {"read", "decode", "rgb"}
        /\ response[r].status = 200 => failedAt[r] = ""
        /\ pc[r] = "done" => response[r].status \in {200, 500}

C2_Witness ==
    \E r, q \in Req :
        /\ failedAt[r] = "encode"
        /\ buf[r] # <<>>
        /\ upload[q] = TruncatedPNG
        /\ failedAt[q] = "rgb"

\* C3: failures leave the process serving: after any failure the process is
\* in state serving, a new request with a valid image can still be posted,
\* and a request that arrived after a failure and whose own calls succeed is
\* answered exactly as the pipeline prescribes.
C3_ServesAfterFailure ==
    /\ (\E q \in Req : failedAt[q] # "")
       => /\ proc = "serving"
          /\ \A r \in Req : pc[r] = "new" => ENABLED Arrive(r, RGBPNG)
    /\ \A r \in Req :
          (/\ afterFailure[r]
           /\ pc[r] = "done"
           /\ Decodable(upload[r])
           /\ failedAt[r] = "")
          => response[r] = Expected(upload[r])

C3_Witness ==
    \E r, q \in Req :
        /\ failedAt[q] = "decode"
        /\ upload[q] = EmptyFile
        /\ afterFailure[r]
        /\ Succeeded(r)

\* The data of one request: its locals and its response.
Data(r) == <<image_bytes[r], img[r], out_img[r], buf[r], response[r]>>

\* What the locals of request r hold at each position, from r's upload alone.
OwnData(r) ==
    /\ StatusOf(pc[r]) \in {"none", "received"} => Data(r) = <<<<>>, NoBitmap, NoBitmap, <<>>, NoResponse>>
    /\ InSection(r) => image_bytes[r] = upload[r]
    /\ pc[r] = "convert" => img[r] = ImageOpen(upload[r])
    /\ pc[r] \in {"infer", "in_infer", "hung", "encode", "return"}
       => img[r] = to_RGB(Decode(upload[r]))
    /\ pc[r] \in {"encode", "return"}
       => out_img[r] = infer(LoadedRemover, to_RGB(Decode(upload[r])))
    /\ pc[r] = "return" => buf[r] = Expected(upload[r]).content
    /\ Succeeded(r) => response[r] = Expected(upload[r])

\* C4: a step changes the locals or the response of a request only when it is
\* a step of that request's own coroutine and of no other, and at every
\* position the locals and the response are computed from the request's own
\* upload.
C4_NoCrossRequestData ==
    /\ [](\A r \in Req : OwnData(r))
    /\ [][\A q \in Req :
            Data(q)' # Data(q)
            => /\ pc'[q] # pc[q]
               /\ \A p \in Req \ {q} : pc'[p] = pc[p] /\ Data(p)' = Data(p)]_vars

C4_Witness ==
    \E r, q \in Req :
        /\ pc[r] = "return"
        /\ upload[r] = RGBPNG
        /\ pc[q] = "await_read"
        /\ upload[q] = RGBAPNG

\* C5: at most one request is inside remover.process, at most one is between
\* the return of line 19 and the end of the handler, that one holds the event
\* loop, and while it does no other request's coroutine takes a step.
C5_SectionAtomic ==
    /\ [](/\ Cardinality({r \in Req : pc[r] \in {"in_infer", "hung"}}) <= 1
          /\ Cardinality({r \in Req : InSection(r)}) <= 1
          /\ \A r \in Req : InSection(r) <=> loop = r)
    /\ [][\A r \in Req :
            InSection(r)
            => \A q \in Req \ {r} :
                  /\ pc'[q] = pc[q] \/ pc[q] = "new"
                  /\ Data(q)' = Data(q)]_vars

C5_Witness ==
    \E r, q \in Req :
        /\ pc[r] = "in_infer"
        /\ pc[q] = "await_read"

\* C6: exactly one Remover is built, before any request is received, and it
\* is the instance every inference is called on; no step replaces it.
C6_OneModelInstance ==
    /\ proc = "importing"
       => /\ created = 0
          /\ remover = NoRemover
          /\ \A r \in Req : pc[r] = "new"
    /\ proc # "importing" => created = 1 /\ remover = LoadedRemover
    /\ \A r \in Req :
          IF "infer" \in {trace[r][i] : i \in 1..Len(trace[r])}
          THEN usedRemover[r] = LoadedRemover.id
          ELSE usedRemover[r] = 0

C6_Witness ==
    \E r, q \in Req :
        /\ r # q
        /\ Succeeded(r)
        /\ Succeeded(q)
        /\ usedRemover[r] = 1
        /\ usedRemover[q] = 1
        /\ created = 1

C8_DimensionsPreserved ==
    \A r \in Req :
        Succeeded(r)
        => /\ Decodable(response[r].content)
           /\ response[r].content[1] = PNGMagic
           /\ Decode(response[r].content).mode = 4
           /\ Decode(response[r].content).w = Decode(upload[r]).w
           /\ Decode(response[r].content).h = Decode(upload[r]).h

C8_Witness ==
    \E r, q \in Req :
        /\ Succeeded(r)
        /\ upload[r] = GrayJPEG
        /\ Decode(response[r].content).w = 1
        /\ Decode(response[r].content).h = 1
        /\ Succeeded(q)
        /\ upload[q] = RGBPNG
        /\ Decode(response[q].content).w = 2

\* C9: a request's status never moves backwards through received,
\* processing, completed; a completed request never changes again; a request
\* has one response when completed and none before.
C9_ForwardOnly ==
    /\ [](\A r \in Req :
            responses[r] = IF pc[r] = "done" THEN 1 ELSE 0)
    /\ [][\A r \in Req :
            /\ Rank(StatusOf(pc'[r])) >= Rank(StatusOf(pc[r]))
            /\ pc[r] = "done"
               => /\ pc'[r] = "done"
                  /\ Data(r)' = Data(r)
                  /\ trace'[r] = trace[r]
                  /\ responses'[r] = responses[r]]_vars

C9_Witness ==
    \E r, q \in Req :
        /\ Succeeded(r)
        /\ pc[q] = "done"
        /\ failedAt[q] = "infer"

\* C10: a request whose inference call never returns stays in processing
\* without a response for ever; and when the event loop is fair, every
\* received request is completed unless some inference call never returns.
C10_NoTimeoutButProgress ==
    /\ [](\A r \in Req :
            pc[r] = "hung" => response[r] = NoResponse /\ responses[r] = 0)
    /\ [][\A r \in Req : pc[r] = "hung" => pc'[r] = "hung"]_vars
    /\ \A r \in Req :
          (pc[r] = "await_read")
          ~> (pc[r] = "done" \/ \E q \in Req : pc[q] = "hung")

C10_Witness ==
    \E r, q \in Req :
        /\ pc[r] = "hung"
        /\ response[r] = NoResponse
        /\ pc[q] = "done"

====
